---------------------------- MODULE Spec2Model ----------------------------
(***************************************************************************)
(* A model of src/app.rs of deproject-gui: the CalibratorGui application   *)
(* (new / save / update / on_exit, driven by the eframe host), its render  *)
(* state Scene3d (new / paint / destroy on a glow GL context), the paint   *)
(* callbacks that update hands to the rendering backend, and the settings  *)
(* storage the calibration root is saved to.                               *)
(*                                                                         *)
(* Angles are counted in hundredths of a radian, so that the factor 0.01   *)
(* of a drag delta is the integer 1.                                       *)
(***************************************************************************)
EXTENDS Integers, Sequences, FiniteSets, TLC

\* ------------------------------------------------------------------ bounds
MaxPending == 2      \* paint callbacks queued and not yet run by the backend
MaxDrag == 1         \* |sum of the drag deltas| the host reports in a session
MaxSessions == 2     \* launches of the application on the same storage
NumBackends == 2     \* backend threads that may run paint callbacks

\* ------------------------------------------------------------------ threads
UiThread == 0
Backends == 1..NumBackends

\* ------------------------------------------------------------------ paths
\* PathBuf values.  DefaultPath is PathBuf::default(); NonUtf8Path stands for
\* a directory whose name is not valid UTF-8 (allowed by the OS, and a value
\* the folder dialog can return).
Cancelled == "Cancelled"
NotOpened == "NotOpened"
DefaultPath == ""
NonUtf8Path == "/mnt/calib-\\xFF"
Utf8Path == "/data/calib"
Paths == {DefaultPath, Utf8Path, NonUtf8Path}
\* What rfd::FileDialog::pick_folder returns: Some(folder) or None.
DialogResults == (Paths \ {DefaultPath}) \cup {Cancelled}

\* Path::to_str: None when the path is not valid UTF-8.
ToStr(p) == IF p = NonUtf8Path THEN [some |-> FALSE, str |-> ""]
            ELSE [some |-> TRUE, str |-> p]

\* ------------------------------------------------------------------ storage
\* eframe's key-value storage: cc.storage is None (present = FALSE), or a
\* store whose APP_KEY entry is absent (<<>>) or a RON text <<"ron", root>>.
NoStorage == [present |-> FALSE, entry |-> <<>>]
EmptyStorage == [present |-> TRUE, entry |-> <<>>]

\* #[derive(Serialize)] on CalibratorGui with #[serde(skip)] scene_3d: only
\* calb_root_path is written; a PathBuf serialises through to_str and is an
\* error when the path is not valid UTF-8.
Serialize(scene, root) ==
    LET s == ToStr(root)
    IN IF s.some THEN [ok |-> TRUE, text |-> <<"ron", s.str>>]
       ELSE [ok |-> FALSE, text |-> <<>>]

\* eframe::set_value: the entry is written only when serialisation succeeds
\* (a failure is logged and the entry keeps its old value).
SetValue(store, scene, root) ==
    LET r == Serialize(scene, root)
    IN IF r.ok THEN [store EXCEPT !.entry = r.text] ELSE store

\* #[derive(Deserialize, Default)]: scene_3d is skipped and comes back None.
DefaultInstance == [scene_3d |-> "None", calb_root_path |-> DefaultPath]
Deserialize(text) ==
    IF Len(text) = 2 /\ text[1] = "ron"
    THEN [some |-> TRUE,
          value |-> [scene_3d |-> "None", calb_root_path |-> text[2]]]
    ELSE [some |-> FALSE, value |-> DefaultInstance]

\* cc.storage.and_then(|s| eframe::get_value(s, APP_KEY)).unwrap_or_default()
LoadInstance(store) ==
    IF ~store.present THEN DefaultInstance
    ELSE LET d == Deserialize(store.entry)
         IN IF d.some THEN d.value ELSE DefaultInstance

\* ------------------------------------------------------------------ GL
\* The GL context's objects as Scene3d touches them.  A shader is "none",
\* "created", "compiled", "compile_failed", "flagged" (deleted while still
\* attached) or "deleted"; error is set by a call on a name that is not live.
ShaderKinds == {"vs", "fs"}
FreshGl ==
    [program |-> "none", vertex_array |-> "none",
     shaders |-> [k \in ShaderKinds |-> "none"], attached |-> {},
     linked |-> FALSE, u_angle |-> 0, drawn |-> FALSE, error |-> FALSE]

\* What the driver may refuse: the creations (an Err result) and the
\* compilations and the link (a false status).
Step(call, obj) == [call |-> call, obj |-> obj]
DriverFailures ==
    {Step("create_program", "program"), Step("create_shader", "vs"),
     Step("compile_shader", "vs"), Step("create_shader", "fs"),
     Step("compile_shader", "fs"), Step("link_program", "program"),
     Step("create_vertex_array", "vertex_array")}

\* One shader of the map closure of Scene3d::new.
ShaderSteps(k) ==
    <<Step("create_shader", k), Step("shader_source", k),
      Step("compile_shader", k), Step("get_shader_compile_status", k),
      Step("attach_shader", k)>>

\* detach_shader and delete_shader of the loop after the link.
ReleaseStepsNoDelete(k) == <<Step("detach_shader", k)>>
ReleaseSteps(k) == <<Step("detach_shader", k), Step("delete_shader", k)>>

\* The GL calls of Scene3d::new, in program order.
NewSteps ==
    <<Step("create_program", "program")>>
    \o ShaderSteps("vs") \o ShaderSteps("fs")
    \o <<Step("link_program", "program"),
         Step("get_program_link_status", "program")>>
    \o ReleaseSteps("vs") \o ReleaseSteps("fs")
    \o <<Step("create_vertex_array", "vertex_array")>>

\* The effect of one GL call on the context; fails is what the driver refuses.
GlApply(g, s, fails) ==
    LET k == s.obj
    IN CASE s.call = "create_program" ->
              IF s \in fails THEN g ELSE [g EXCEPT !.program = "live"]
         [] s.call = "create_shader" ->
              IF s \in fails THEN g ELSE [g EXCEPT !.shaders[k] = "created"]
         [] s.call = "shader_source" -> g
         [] s.call = "compile_shader" ->
              [g EXCEPT !.shaders[k] =
                  IF s \in fails THEN "compile_failed" ELSE "compiled"]
         [] s.call = "attach_shader" ->
              [g EXCEPT !.attached = @ \cup {k}]
         [] s.call = "link_program" ->
              [g EXCEPT !.linked =
                  /\ s \notin fails
                  /\ g.attached = ShaderKinds
                  /\ \A j \in ShaderKinds : g.shaders[j] = "compiled"]
         [] s.call = "detach_shader" ->
              [g EXCEPT !.attached = @ \ {k},
                        !.shaders[k] = IF @ = "flagged" THEN "deleted" ELSE @]
         [] s.call = "delete_shader" ->
              [g EXCEPT !.shaders[k] =
                  IF k \in g.attached THEN "flagged" ELSE "deleted"]
         [] s.call = "create_vertex_array" ->
              IF s \in fails THEN g ELSE [g EXCEPT !.vertex_array = "live"]
         [] OTHER -> g

\* The panic a call of Scene3d::new ends in, <<>> when it goes on: the expect
\* of a creation, and the panic!("{}", info_log) of a false status.
NoPanic == <<>>
StepPanicUnchecked(g, s, fails) ==
    CASE s.call = "create_program" /\ s \in fails -> <<"Cannot create program">>
      [] s.call = "create_shader" /\ s \in fails -> <<"Cannot create shader">>
      [] s.call = "create_vertex_array" /\ s \in fails ->
           <<"Cannot create vertex array">>
      [] OTHER -> NoPanic
StepPanic(g, s, fails) ==
    CASE s.call = "create_program" /\ s \in fails -> <<"Cannot create program">>
      [] s.call = "create_shader" /\ s \in fails -> <<"Cannot create shader">>
      [] s.call = "get_shader_compile_status" /\ g.shaders[s.obj] # "compiled" ->
           <<"shader_info_log", s.obj>>
      [] s.call = "get_program_link_status" /\ ~g.linked ->
           <<"program_info_log">>
      [] s.call = "create_vertex_array" /\ s \in fails ->
           <<"Cannot create vertex array">>
      [] OTHER -> NoPanic

\* Scene3d::new on context g: the calls made, the context after them, and the
\* panic that ended them (NoPanic when a Scene3d is returned).
RECURSIVE RunSteps(_, _, _, _, _)
RunSteps(steps, i, fails, g, log) ==
    IF i > Len(steps) THEN [log |-> log, gl |-> g, panic |-> NoPanic]
    ELSE LET s == steps[i]
             g2 == GlApply(g, s, fails)
             p == StepPanic(g2, s, fails)
         IN IF p # NoPanic
            THEN [log |-> Append(log, s), gl |-> g2, panic |-> p]
            ELSE RunSteps(steps, i + 1, fails, g2, Append(log, s))

Scene3dNew(g, fails) == RunSteps(NewSteps, 1, fails, g, <<>>)

\* Scene3d::destroy: delete_program, delete_vertex_array.
Scene3dDestroy(g) ==
    [g EXCEPT !.program = "deleted", !.vertex_array = "deleted",
              !.error = @ \/ g.program # "live" \/ g.vertex_array # "live"]

\* Scene3d::paint: use_program, uniform_1_f32(u_angle), bind_vertex_array,
\* draw_arrays(TRIANGLES, 0, 3).
Scene3dPaint(g, angle) ==
    IF g.program = "live" /\ g.vertex_array = "live"
    THEN [g EXCEPT !.u_angle = angle, !.drawn = TRUE]
    ELSE [g EXCEPT !.error = TRUE]

\* ------------------------------------------------------------------ UI
\* What the host and the user feed one update frame: the two buttons, the
\* folder dialog's answer should it open, and the horizontal drag delta the
\* central viewport's response reports.
DragDeltas == {-1, 0, 1}
Inputs ==
    {i \in [rec : BOOLEAN, path : BOOLEAN, dialog : DialogResults,
            dx : DragDeltas] :
        /\ ~i.path => i.dialog = Cancelled
        /\ i.rec => i.dx = 0}
NoFrame == [rec |-> FALSE, path |-> FALSE, picked |-> NotOpened]

\* if ui.button(path_text).clicked() { if let Some(folder) = pick_folder()
\* { self.calb_root_path = folder; } }
PathButtonKeepsRoot(root, clicked, dialog) == root
PathButton(root, clicked, dialog) ==
    IF clicked /\ dialog # Cancelled THEN dialog ELSE root

\* left_panel: todo!() when "Begin recording" is clicked, before the path
\* button exists; otherwise the path button.
LeftPanelRecordingNoOp(root, i) ==
    [panic |-> NoPanic,
     root |-> PathButton(root, i.path, i.dialog),
     picked |-> IF i.path THEN i.dialog ELSE NotOpened]
LeftPanel(root, i) ==
    IF i.rec
    THEN [panic |-> <<"not yet implemented">>, root |-> root,
          picked |-> NotOpened]
    ELSE [panic |-> NoPanic,
          root |-> PathButton(root, i.path, i.dialog),
          picked |-> IF i.path THEN i.dialog ELSE NotOpened]

\* The angle the paint callback of paint_view3d captures, in hundredths of a
\* radian: the literal 0. of `.paint(painter.gl(), 0.)`; the drag response
\* is not read.
CallbackAngle(dragTotal, dx) == 0

\* instance.scene_3d = Some(Arc::new(Mutex::new(Scene3d::new(..))))
NewInstanceKeepsScene(inst) == inst
NewInstance(inst) == [inst EXCEPT !.scene_3d = "Some"]

\* Mutex::lock: granted only when no thread holds the lock.
LockFreeAlways(holders) == TRUE
LockFree(holders) == holders = {}

\* ------------------------------------------------------------------ state
VARIABLES
    phase,           \* "start", "running", "exiting", "exited", "panicked"
    panic,           \* the panic message that aborted the process, or NoPanic
    op,              \* the handler the host ran last on the UI thread
    session,         \* launches so far
    storage,         \* eframe's storage
    calb_root_path,  \* CalibratorGui.calb_root_path
    scene_3d,        \* CalibratorGui.scene_3d: "None" or "Some"
    gl,              \* the GL context's objects
    glLog,           \* the GL calls Scene3d::new made
    pending,         \* queued paint callbacks: the angle each captured
    mutex,           \* the threads holding the Mutex around the Scene3d
    pc,              \* each backend thread: "idle", "locking", "painting"
    cbAngle,         \* the angle of the callback each backend thread runs
    dragSum,         \* sum of the drag deltas reported this session
    frame,           \* what the last update frame saw
    exitGl,          \* on_exit's argument: "unset", "Some", "None"
    destroyCalls     \* calls of Scene3d::destroy this session

vars ==
    <<phase, panic, op, session, storage, calb_root_path, scene_3d, gl, glLog,
      pending, mutex, pc, cbAngle, dragSum, frame, exitGl, destroyCalls>>

\* A freshly launched process: no CalibratorGui yet, a fresh GL context.
Launched ==
    /\ phase = "start"
    /\ panic = NoPanic
    /\ op = "launch"
    /\ calb_root_path = DefaultPath
    /\ scene_3d = "None"
    /\ gl = FreshGl
    /\ glLog = <<>>
    /\ pending = <<>>
    /\ mutex = {}
    /\ pc = [t \in Backends |-> "idle"]
    /\ cbAngle = [t \in Backends |-> 0]
    /\ dragSum = 0
    /\ frame = NoFrame
    /\ exitGl = "unset"
    /\ destroyCalls = 0

Init ==
    /\ Launched
    /\ session = 1
    /\ storage \in {NoStorage, EmptyStorage}

\* ------------------------------------------------------------------ actions
\* CalibratorGui::new.  glPresent: whether cc.gl is Some; fails: what the
\* driver refuses.
New(glPresent, fails) ==
    /\ phase = "start"
    /\ op' = "new"
    /\ LET inst == LoadInstance(storage)
           r == Scene3dNew(gl, fails)
       IN IF ~glPresent
          THEN /\ phase' = "panicked"
               /\ panic' = <<"GL Enabled">>
               /\ UNCHANGED <<calb_root_path, scene_3d, gl, glLog>>
          ELSE IF r.panic # NoPanic
          THEN /\ phase' = "panicked"
               /\ panic' = r.panic
               /\ gl' = r.gl
               /\ glLog' = r.log
               /\ UNCHANGED <<calb_root_path, scene_3d>>
          ELSE /\ phase' = "running"
               /\ panic' = NoPanic
               /\ gl' = r.gl
               /\ glLog' = r.log
               /\ calb_root_path' = NewInstance(inst).calb_root_path
               /\ scene_3d' = NewInstance(inst).scene_3d
    /\ UNCHANGED <<session, storage, pending, mutex, pc, cbAngle, dragSum,
                   frame, exitGl, destroyCalls>>

\* App::save: eframe::set_value(storage, APP_KEY, self).
Save ==
    /\ phase = "running"
    /\ storage.present
    /\ op' = "save"
    /\ storage' = SetValue(storage, scene_3d, calb_root_path)
    /\ UNCHANGED <<phase, panic, session, calb_root_path, scene_3d, gl, glLog,
                   pending, mutex, pc, cbAngle, dragSum, frame, exitGl,
                   destroyCalls>>

\* App::update: left_panel, then paint_view3d, which unwraps scene_3d and
\* queues a paint callback holding a clone of the Arc.
Update(i) ==
    /\ phase = "running"
    /\ i.rec \/ Len(pending) < MaxPending
    /\ (dragSum + i.dx) \in -MaxDrag..MaxDrag
    /\ op' = "update"
    /\ LET l == LeftPanel(calb_root_path, i)
       IN IF l.panic # NoPanic
          THEN /\ phase' = "panicked"
               /\ panic' = l.panic
               /\ frame' = [rec |-> i.rec, path |-> FALSE,
                            picked |-> l.picked]
               /\ UNCHANGED <<calb_root_path, pending, dragSum>>
          ELSE IF scene_3d = "None"
          THEN /\ phase' = "panicked"
               /\ panic' = <<"called Option::unwrap() on a None value">>
               /\ calb_root_path' = l.root
               /\ frame' = [rec |-> i.rec, path |-> i.path,
                            picked |-> l.picked]
               /\ UNCHANGED <<pending, dragSum>>
          ELSE /\ UNCHANGED <<phase, panic>>
               /\ calb_root_path' = l.root
               /\ frame' = [rec |-> i.rec, path |-> i.path,
                            picked |-> l.picked]
               /\ dragSum' = dragSum + i.dx
               /\ pending' = Append(pending, CallbackAngle(dragSum, i.dx))
    /\ UNCHANGED <<session, storage, scene_3d, gl, glLog, mutex, pc, cbAngle,
                   exitGl, destroyCalls>>

\* The backend invokes the oldest queued callback on thread t.
CallbackStart(t) ==
    /\ phase \in {"running", "exiting", "exited"}
    /\ pc[t] = "idle"
    /\ pending # <<>>
    /\ pc' = [pc EXCEPT ![t] = "locking"]
    /\ cbAngle' = [cbAngle EXCEPT ![t] = Head(pending)]
    /\ pending' = Tail(pending)
    /\ UNCHANGED <<phase, panic, op, session, storage, calb_root_path,
                   scene_3d, gl, glLog, mutex, dragSum, frame, exitGl,
                   destroyCalls>>

\* rotating_triangle.lock() in the callback.
CallbackLock(t) ==
    /\ phase \in {"running", "exiting", "exited"}
    /\ pc[t] = "locking"
    /\ LockFree(mutex)
    /\ mutex' = mutex \cup {t}
    /\ pc' = [pc EXCEPT ![t] = "painting"]
    /\ UNCHANGED <<phase, panic, op, session, storage, calb_root_path,
                   scene_3d, gl, glLog, pending, cbAngle, dragSum, frame,
                   exitGl, destroyCalls>>

\* .paint(painter.gl(), angle), then the guard is dropped.
CallbackPaint(t) ==
    /\ phase \in {"running", "exiting", "exited"}
    /\ pc[t] = "painting"
    /\ gl' = Scene3dPaint(gl, cbAngle[t])
    /\ mutex' = mutex \ {t}
    /\ pc' = [pc EXCEPT ![t] = "idle"]
    /\ UNCHANGED <<phase, panic, op, session, storage, calb_root_path,
                   scene_3d, glLog, pending, cbAngle, dragSum, frame, exitGl,
                   destroyCalls>>

\* App::on_exit(None): nothing is done.
OnExitNone ==
    /\ phase = "running"
    /\ op' = "on_exit"
    /\ exitGl' = "None"
    /\ phase' = "exited"
    /\ UNCHANGED <<panic, session, storage, calb_root_path, scene_3d, gl,
                   glLog, pending, mutex, pc, cbAngle, dragSum, frame,
                   destroyCalls>>

\* App::on_exit(Some(gl)): self.scene_3d.as_ref().unwrap().lock() ...
OnExitLock ==
    /\ phase = "running"
    /\ op' = "on_exit"
    /\ exitGl' = "Some"
    /\ IF scene_3d = "None"
       THEN /\ phase' = "panicked"
            /\ panic' = <<"called Option::unwrap() on a None value">>
            /\ UNCHANGED mutex
       ELSE /\ LockFree(mutex)
            /\ mutex' = mutex \cup {UiThread}
            /\ phase' = "exiting"
            /\ UNCHANGED panic
    /\ UNCHANGED <<session, storage, calb_root_path, scene_3d, gl, glLog,
                   pending, pc, cbAngle, dragSum, frame, destroyCalls>>

\* ... .destroy(gl), then the guard is dropped and on_exit returns.
OnExitDestroyTwice ==
    /\ phase = "exiting"
    /\ gl' = Scene3dDestroy(Scene3dDestroy(gl))
    /\ destroyCalls' = destroyCalls + 2
    /\ mutex' = mutex \ {UiThread}
    /\ phase' = "exited"
    /\ UNCHANGED <<panic, op, session, storage, calb_root_path, scene_3d,
                   glLog, pending, pc, cbAngle, dragSum, frame, exitGl>>
OnExitDestroy ==
    /\ phase = "exiting"
    /\ gl' = Scene3dDestroy(gl)
    /\ destroyCalls' = destroyCalls + 1
    /\ mutex' = mutex \ {UiThread}
    /\ phase' = "exited"
    /\ UNCHANGED <<panic, op, session, storage, calb_root_path, scene_3d,
                   glLog, pending, pc, cbAngle, dragSum, frame, exitGl>>

\* The application is started again on the same storage.
Relaunch ==
    /\ phase \in {"exited", "panicked"}
    /\ session < MaxSessions
    /\ session' = session + 1
    /\ UNCHANGED storage
    /\ phase' = "start"
    /\ panic' = NoPanic
    /\ op' = "launch"
    /\ calb_root_path' = DefaultPath
    /\ scene_3d' = "None"
    /\ gl' = FreshGl
    /\ glLog' = <<>>
    /\ pending' = <<>>
    /\ mutex' = {}
    /\ pc' = [t \in Backends |-> "idle"]
    /\ cbAngle' = [t \in Backends |-> 0]
    /\ dragSum' = 0
    /\ frame' = NoFrame
    /\ exitGl' = "unset"
    /\ destroyCalls' = 0

Next ==
    \/ \E glPresent \in BOOLEAN, fails \in SUBSET DriverFailures :
          New(glPresent, fails)
    \/ Save
    \/ \E i \in Inputs : Update(i)
    \/ \E t \in Backends : CallbackStart(t)
    \/ \E t \in Backends : CallbackLock(t)
    \/ \E t \in Backends : CallbackPaint(t)
    \/ OnExitNone
    \/ OnExitLock
    \/ OnExitDestroy
    \/ Relaunch

Spec == Init /\ [][Next]_vars

\* ------------------------------------------------------------------ claims
\* C1: no Scene3d::paint executes before Scene3d::new has completed or after
\* Scene3d::destroy has run, queued callbacks included.
C1_PaintOnlyBetweenNewAndDestroy ==
    \A t \in Backends :
        pc[t] = "painting" => scene_3d = "Some" /\ destroyCalls = 0

\* C2 as stated: once on_exit has returned, Scene3d::destroy has been called
\* exactly once, whatever graphics-context argument on_exit got.
C2_DestroyExactlyOnceOnExit ==
    phase = "exited" => destroyCalls = 1

\* C2 as amended: destroy is never called twice; once on_exit has returned
\* it has been called exactly once when on_exit got Some(gl), and not at all
\* when it got None.
C2_DestroyOnceIffGlPresent ==
    /\ destroyCalls <= 1
    /\ phase = "exited" =>
          destroyCalls = (IF exitGl = "Some" THEN 1 ELSE 0)

C2_Witness ==
    phase = "exited" /\ exitGl = "Some" /\ destroyCalls = 1
    /\ gl.program = "deleted"

\* C3: a click on the path button stores exactly the folder the dialog
\* returns and leaves the root alone when the dialog is cancelled; within a
\* session nothing else changes the stored root, so it is the most recent
\* selection, or the root new started with.
C3_FolderSelection ==
    [][/\ \A i \in Inputs :
             Update(i) /\ ~i.rec =>
                IF i.path /\ i.dialog # Cancelled
                THEN calb_root_path' = i.dialog
                ELSE calb_root_path' = calb_root_path
       /\ calb_root_path' # calb_root_path =>
             \/ phase = "start"
             \/ phase' = "start"
             \/ \E i \in Inputs :
                   Update(i) /\ i.path /\ i.dialog = calb_root_path'
      ]_vars

C3_Witness ==
    /\ op = "update"
    /\ frame.path
    /\ frame.picked = Cancelled
    /\ calb_root_path = NonUtf8Path

\* C4: the angle a frame hands to Scene3d::paint is the initial angle 0 plus
\* 0.01 times the sum of the drag deltas reported so far.
C4_PaintAngleIsDragSum ==
    pending # <<>> => pending[Len(pending)] = dragSum

\* C5: a frame in which "Begin recording" is clicked ends in the
\* not-yet-implemented panic before the path button is evaluated: no dialog
\* opens, the stored root is unchanged and no callback is queued.
C5_BeginRecordingPanics ==
    [][\A i \in Inputs :
          Update(i) /\ i.rec =>
             /\ phase' = "panicked"
             /\ panic' = <<"not yet implemented">>
             /\ calb_root_path' = calb_root_path
             /\ frame'.picked = NotOpened
             /\ pending' = pending
      ]_vars

C5_Witness ==
    /\ panic = <<"not yet implemented">>
    /\ frame.rec
    /\ frame.picked = NotOpened
    /\ calb_root_path = Utf8Path

\* C6: when a shader's compilation or the program's link has failed, the
\* process is aborted inside CalibratorGui::new with the driver's info log as
\* the panic message: no Scene3d exists, and no frame, paint or destroy has
\* run.
ShaderCompileFailed(k) == gl.shaders[k] = "compile_failed"
LinkFailed ==
    /\ \E n \in 1..Len(glLog) : glLog[n] = Step("link_program", "program")
    /\ ~gl.linked
C6_ShaderFailureAbortsNew ==
    /\ \A k \in ShaderKinds :
          ShaderCompileFailed(k) => panic = <<"shader_info_log", k>>
    /\ LinkFailed => panic = <<"program_info_log">>
    /\ (LinkFailed \/ \E k \in ShaderKinds : ShaderCompileFailed(k)) =>
          /\ phase = "panicked"
          /\ op = "new"
          /\ scene_3d = "None"
          /\ frame = NoFrame
          /\ pending = <<>>
          /\ \A t \in Backends : pc[t] = "idle"
          /\ ~gl.drawn
          /\ destroyCalls = 0
          /\ exitGl = "unset"

C6_Witness ==
    /\ panic = <<"shader_info_log", "fs">>
    /\ gl.shaders["vs"] = "compiled"
    /\ "vs" \in gl.attached
    /\ phase = "panicked"

\* C7: whatever the stored root is when save runs, a CalibratorGui::new that
\* then reads the storage starts with that root.
C7_SavedRootIsRestored ==
    op = "save" => LoadInstance(storage).calb_root_path = calb_root_path

\* C8: at most one thread is inside Scene3d::paint or Scene3d::destroy at a
\* time, and the threads inside one are exactly the holders of the lock.
InSceneCall ==
    {t \in Backends : pc[t] = "painting"}
    \cup (IF phase = "exiting" THEN {UiThread} ELSE {})
C8_PaintAndDestroySerialised ==
    /\ Cardinality(InSceneCall) <= 1
    /\ mutex = InSceneCall

C8_Witness ==
    /\ phase = "exiting"
    /\ \E t \in Backends : pc[t] = "locking"

\* C9: a successful Scene3d::new creates the program first, then creates,
\* compiles and attaches the vertex shader and then the fragment shader,
\* links, only then detaches and deletes each shader, and creates the vertex
\* array last; on return one program and one vertex array are live and no
\* shader is attached or live.
Pos(call, obj) ==
    CHOOSE n \in 1..Len(glLog) : glLog[n] = Step(call, obj)
Count(call, obj) ==
    Cardinality({n \in 1..Len(glLog) : glLog[n] = Step(call, obj)})
C9_NewOrderAndOwnership ==
    (op = "new" /\ phase = "running") =>
       /\ Count("create_program", "program") = 1
       /\ Count("link_program", "program") = 1
       /\ Count("create_vertex_array", "vertex_array") = 1
       /\ \A k \in ShaderKinds :
             /\ Count("create_shader", k) = 1
             /\ Count("compile_shader", k) = 1
             /\ Count("attach_shader", k) = 1
             /\ Count("detach_shader", k) = 1
             /\ Count("delete_shader", k) = 1
             /\ Pos("create_program", "program") < Pos("create_shader", k)
             /\ Pos("create_shader", k) < Pos("compile_shader", k)
             /\ Pos("compile_shader", k) < Pos("attach_shader", k)
             /\ Pos("attach_shader", k) < Pos("link_program", "program")
             /\ Pos("link_program", "program") < Pos("detach_shader", k)
             /\ Pos("detach_shader", k) < Pos("delete_shader", k)
             /\ Pos("delete_shader", k)
                   < Pos("create_vertex_array", "vertex_array")
       /\ Pos("attach_shader", "vs") < Pos("create_shader", "fs")
       /\ Pos("create_vertex_array", "vertex_array") = Len(glLog)
       /\ gl.program = "live"
       /\ gl.linked
       /\ gl.vertex_array = "live"
       /\ gl.attached = {}
       /\ \A k \in ShaderKinds : gl.shaders[k] = "deleted"

C9_Witness ==
    op = "new" /\ phase = "running" /\ gl.vertex_array = "live"

\* C10: from the return of CalibratorGui::new to the return of on_exit,
\* scene_3d is Some, also when the instance was restored from storage, and
\* no unwrap of it has panicked.
C10_SceneAlwaysSome ==
    /\ phase \in {"running", "exiting", "exited"} => scene_3d = "Some"
    /\ panic # <<"called Option::unwrap() on a None value">>

C10_Witness ==
    /\ phase = "exited"
    /\ scene_3d = "Some"
    /\ storage.entry = <<"ron", Utf8Path>>
    /\ calb_root_path = Utf8Path
    /\ frame = NoFrame

=============================================================================
